---- MODULE Spec2Model ----
(***************************************************************************)
(* Model of src/backend/app.py: the FastAPI service that exposes GPT-2     *)
(* internals.  The state is the three module-level handles (tokenizer,     *)
(* model, tl_model) set once by the import-time load, plus the response    *)
(* of the last request handled.  Every endpoint is one action.  The        *)
(* third-party libraries (tokenizer, GPT-2 forward pass, TransformerLens   *)
(* cache, PCA, top-k / softmax / multinomial) are scaled-down              *)
(* deterministic functions over a small vocabulary.                        *)
(***************************************************************************)
EXTENDS Integers, Sequences, FiniteSets, TLC

VARIABLES tokenizer, model, tl_model, resp, prev

vars == <<tokenizer, model, tl_model, resp, prev>>

(* ------------------------------ bounds -------------------------------- *)
MaxTextLen == 3
NumLayers == 2
NumHeads == 1

(* ------------------------- program constants -------------------------- *)
TopK == 10
PcaComponents == 3
MinHiddenDim == 3
DefaultLayer == 0
DefaultTemperature == 1000000
TemperatureFloor == 1

(* ------------------------ text and vocabulary ------------------------- *)
\* the value a handle has after a failed load
None == [loaded |-> FALSE]
\* a float of the request schema: a number in millionths, or NaN
Float(v) == [nan |-> FALSE, v |-> v]
NaN == [nan |-> TRUE, v |-> 0]
SpaceMarker == "U+0120"
EotText == "<|endoftext|>"
Surrogate == "U+D800"
EndOfText == <<EotText>>

\* ids 0..10; Vocab[id + 1] is the raw (byte-level) token string of id
Vocab ==
  << <<"a">>, <<SpaceMarker, "a">>, <<SpaceMarker>>, <<"b">>,
     <<SpaceMarker, "b">>, <<"c">>, <<SpaceMarker, "c">>,
     <<SpaceMarker, SpaceMarker>>, <<"d">>, <<SpaceMarker, "d">>,
     EndOfText >>

VocabIds == 0 .. (Len(Vocab) - 1)
EosId == Len(Vocab) - 1

SeqsUpTo(S, n) == UNION {[1 .. k -> S] : k \in 0 .. n}

Texts ==
  SeqsUpTo({"a", " "}, MaxTextLen) \cup {<<Surrogate>>, <<"a", EotText>>}

LayerInputs == (0 - 1) .. (NumLayers + 1)

\* temperatures in millionths; NaN is a float the schema lets through
TemperatureInputs == {NaN, Float(0), Float(DefaultTemperature)}

Raise == [raised |-> TRUE]
Return(v) == [raised |-> FALSE, value |-> v]

RECURSIVE SumSeq(_)
SumSeq(s) == IF s = <<>> THEN 0 ELSE Head(s) + SumSeq(Tail(s))

Isqrt(n) == CHOOSE r \in 0 .. n : r * r <= n /\ (r + 1) * (r + 1) > n

Pow2(n) == IF n <= 0 THEN 1 ELSE 2 ^ n

(* ----------------------- GPT2Tokenizer (library) ---------------------- *)
RECURSIVE bpe(_)
bpe(text) ==
  IF text = <<>> THEN <<>>
  ELSE IF Head(text) = EotText THEN <<EosId>> \o bpe(Tail(text))
  ELSE IF Head(text) = " " /\ Len(text) >= 2 /\ text[2] = "a"
       THEN <<1>> \o bpe(SubSeq(text, 3, Len(text)))
  ELSE IF Head(text) = " " THEN <<2>> \o bpe(Tail(text))
  ELSE <<0>> \o bpe(Tail(text))

\* tokenizer(text, return_tensors="pt", add_special_tokens=True):
\* GPT-2 adds no special token; an unencodable code point raises
tokenizer_call(text) ==
  IF \E i \in 1 .. Len(text) : text[i] = Surrogate
  THEN Raise
  ELSE Return([input_ids |-> <<bpe(text)>>,
               attention_mask |-> <<[i \in 1 .. Len(bpe(text)) |-> 1]>>])

convert_ids_to_tokens(ids) == [i \in 1 .. Len(ids) |-> Vocab[ids[i] + 1]]

\* tokenizer.decode([id]): the byte decoder turns every marker into a space
decode(id) ==
  [i \in 1 .. Len(Vocab[id + 1]) |->
     IF Vocab[id + 1][i] = SpaceMarker THEN " " ELSE Vocab[id + 1][i]]

RECURSIVE lstrip(_)
lstrip(s) == IF s # <<>> /\ Head(s) = " " THEN lstrip(Tail(s)) ELSE s

RECURSIVE rstrip(_)
rstrip(s) ==
  IF s # <<>> /\ s[Len(s)] = " " THEN rstrip(SubSeq(s, 1, Len(s) - 1)) ELSE s

strip(s) == rstrip(lstrip(s))

\* str.replace(marker, " ")
replace_marker(s) ==
  [i \in 1 .. Len(s) |-> IF s[i] = SpaceMarker THEN " " ELSE s[i]]

(* ---------------------- the handlers' failure guard ------------------- *)
NullPath(default) ==
  [path |-> "null", status |-> "returned", body |-> default]

Unguarded(b, default) ==
  IF b.raised
  THEN [path |-> "except", status |-> "unhandled", body |-> default]
  ELSE [path |-> "ok", status |-> "returned", body |-> b.value]

\* try: ... except Exception as e: print(...); return default
Guarded(b, default) ==
  IF b.raised
  THEN [path |-> "except", status |-> "returned", body |-> default]
  ELSE [path |-> "ok", status |-> "returned", body |-> b.value]

(* ------------------------------ /tokenize ----------------------------- *)
clean_token(token) ==
  IF token # <<>> /\ Head(token) = SpaceMarker
  THEN <<" ">> \o Tail(token)
  ELSE token

InSeq(x, s) == \E i \in 1 .. Len(s) : s[i] = x

RECURSIVE clean_loop(_, _)
clean_loop(raw_tokens, cleaned_tokens) ==
  IF raw_tokens = <<>> THEN cleaned_tokens
  ELSE IF ~InSeq(clean_token(Head(raw_tokens)), cleaned_tokens)
       THEN clean_loop(Tail(raw_tokens),
                       Append(cleaned_tokens, clean_token(Head(raw_tokens))))
       ELSE clean_loop(Tail(raw_tokens), cleaned_tokens)

RECURSIVE CleanNoDedup(_)
CleanNoDedup(raw_tokens) ==
  IF raw_tokens = <<>> THEN <<>>
  ELSE <<clean_token(Head(raw_tokens))>> \o CleanNoDedup(Tail(raw_tokens))

\* the loop over raw_tokens with cleaned_tokens / seen_tokens
cleaned_tokens_of(raw_tokens) == clean_loop(raw_tokens, <<>>)

TokenizeDefault ==
  [input_ids |-> <<>>, tokens |-> <<>>, attention_mask |-> <<>>]

TokenizeBodyDedupIds(text) ==
  LET inputs == tokenizer_call(text) IN
  IF inputs.raised THEN Raise
  ELSE LET ids == inputs.value.input_ids[1] IN
       Return([input_ids |->
                 [i \in 1 .. Len(cleaned_tokens_of(convert_ids_to_tokens(ids)))
                    |-> ids[i]],
               tokens |-> cleaned_tokens_of(convert_ids_to_tokens(ids)),
               attention_mask |-> inputs.value.attention_mask])

tokenize_body(text) ==
  LET inputs == tokenizer_call(text) IN
  IF inputs.raised THEN Raise
  ELSE LET raw_tokens == convert_ids_to_tokens(inputs.value.input_ids[1])
           input_ids == inputs.value.input_ids[1]
       IN Return([input_ids |-> input_ids,
                  tokens |-> cleaned_tokens_of(raw_tokens),
                  attention_mask |-> inputs.value.attention_mask])

tokenize_text(text) ==
  IF tokenizer = None
  THEN NullPath(TokenizeDefault)
  ELSE Guarded(tokenize_body(text), TokenizeDefault)

(* ------------------- GPT2LMHeadModel forward (library) ---------------- *)
hidden_val(layer, pos, id, k) == (layer + 2 * id + pos + k) % 5

attention_val(layer, head, i, j) == IF j <= i THEN 100 \div i ELSE 0

logit(ids, v) == (7 * v + 3 * SumSeq(ids) + Len(ids)) % Len(Vocab)

\* model(**inputs) / model(inputs): an empty sequence cannot be reshaped
model_forward(ids) ==
  IF Len(ids) = 0 THEN Raise
  ELSE Return(
    [logits |-> <<[pos \in 1 .. Len(ids) |->
                    [v \in VocabIds |-> logit(SubSeq(ids, 1, pos), v)]]>>,
     hidden_states |->
       [l \in 1 .. (model.n_layer + 1) |->
          <<[pos \in 1 .. Len(ids) |->
              [k \in 1 .. model.n_embd |->
                 hidden_val(l - 1, pos, ids[pos], k)]]>>],
     attentions |->
       [l \in 1 .. model.n_layer |->
          <<[h \in 1 .. model.n_head |->
              [i \in 1 .. Len(ids) |->
                 [j \in 1 .. Len(ids) |-> attention_val(l, h, i, j)]]]>>]])

\* tensor.squeeze(0).tolist(): drops the batch dimension of size one
squeeze0(t) == IF Len(t) = 1 THEN t[1] ELSE t

\* max(a, b) keeps a unless b > a
py_max(a, b) == IF b > a THEN b ELSE a

\* max(x, 1e-6) on floats: every comparison with NaN is false, so NaN stays
float_max(x, floor) == IF x.nan THEN x ELSE Float(py_max(x.v, floor))

py_min(a, b) == IF b < a THEN b ELSE a

(* ----------------------------- /next_token ---------------------------- *)
RECURSIVE topk_from(_, _, _)
topk_from(f, remaining, k) ==
  IF k = 0 \/ remaining = {} THEN <<>>
  ELSE LET best == CHOOSE v \in remaining :
                     \A w \in remaining :
                        f[w] < f[v] \/ (f[w] = f[v] /\ v <= w)
       IN <<best>> \o topk_from(f, remaining \ {best}, k - 1)

\* torch.topk(next_token_logits, k=10): indices by descending value
topk_indices(f) == topk_from(f, DOMAIN f, TopK)

\* torch.softmax over the top-k slice, in thousandths
softmax(top_logits) ==
  LET w == [i \in 1 .. Len(top_logits) |->
              IF top_logits[1] - top_logits[i] > 10 THEN 0
              ELSE Pow2(10 - (top_logits[1] - top_logits[i]))]
  IN [i \in 1 .. Len(top_logits) |-> (w[i] * 1000) \div SumSeq(w)]

\* next_token_logits / temperature, temperature a number
scaled_logits(next_token_logits, temperature) ==
  [v \in DOMAIN next_token_logits |->
     (next_token_logits[v] * DefaultTemperature) \div temperature.v]

top_probs_of(scaled, top_indices) ==
  softmax([i \in 1 .. Len(top_indices) |-> scaled[top_indices[i]]])

NextTokenDefault ==
  [token |-> <<>>, token_id |-> 0 - 1, probability |-> 0, probs |-> <<>>]

\* torch.multinomial(probs, 1).item(): a position of non-zero probability,
\* selected by the random draw (0-based, as in Python); position 0 holds
\* the largest probability, which is never zero
multinomial(probs, draw) == IF probs[draw + 1] > 0 THEN draw ELSE 0

NextTokenBodyArgmaxProb(text, temperature, draw) ==
  LET inputs == tokenizer_call(text) IN
  IF inputs.raised THEN Raise
  ELSE LET outputs == model_forward(inputs.value.input_ids[1]) IN
  IF outputs.raised THEN Raise
  ELSE IF float_max(temperature, TemperatureFloor).nan THEN Raise
  ELSE LET ids == inputs.value.input_ids[1]
           scaled == scaled_logits(outputs.value.logits[1][Len(ids)],
                                   float_max(temperature, TemperatureFloor))
           top_indices == topk_indices(scaled)
           top_probs_list == top_probs_of(scaled, top_indices)
           top_tokens == [i \in 1 .. Len(top_indices) |-> decode(top_indices[i])]
           sampled_idx == multinomial(top_probs_list, draw)
       IN Return([token |-> strip(top_tokens[sampled_idx + 1]),
                  token_id |-> top_indices[sampled_idx + 1],
                  probability |-> top_probs_list[1],
                  probs |-> [i \in 1 .. Len(top_tokens) |->
                               [token |-> strip(top_tokens[i]),
                                prob |-> top_probs_list[i]]],
                  top_indices |-> top_indices,
                  sampled_idx |-> sampled_idx])

\* the value carries top_indices and sampled_idx, the handler's locals,
\* next to the four keys of the returned dict
\* NaN logits make torch.multinomial raise
next_token_body(text, temperature, draw) ==
  LET inputs == tokenizer_call(text) IN
  IF inputs.raised THEN Raise
  ELSE LET outputs == model_forward(inputs.value.input_ids[1]) IN
  IF outputs.raised THEN Raise
  ELSE IF float_max(temperature, TemperatureFloor).nan THEN Raise
  ELSE LET ids == inputs.value.input_ids[1]
           next_token_logits == outputs.value.logits[1][Len(ids)]
           scaled == scaled_logits(next_token_logits,
                                   float_max(temperature, TemperatureFloor))
           top_indices == topk_indices(scaled)
           top_probs_list == top_probs_of(scaled, top_indices)
           top_tokens == [i \in 1 .. Len(top_indices) |-> decode(top_indices[i])]
           probs_list == [i \in 1 .. Len(top_tokens) |->
                            [token |-> strip(top_tokens[i]),
                             prob |-> top_probs_list[i]]]
           sampled_idx == multinomial(top_probs_list, draw)
       IN Return([token |-> strip(top_tokens[sampled_idx + 1]),
                  token_id |-> top_indices[sampled_idx + 1],
                  probability |-> top_probs_list[sampled_idx + 1],
                  probs |-> probs_list,
                  top_indices |-> top_indices,
                  sampled_idx |-> sampled_idx])

next_token_prediction(text, temperature, draw) ==
  IF tokenizer = None \/ model = None
  THEN NullPath(NextTokenDefault)
  ELSE Guarded(next_token_body(text, temperature, draw),
               NextTokenDefault)

(* ------------------------------ /attention ---------------------------- *)
AttentionDefault == [num_layers |-> 0, attentions |-> <<>>]

AttentionBodyConfigLayers(text) ==
  LET inputs == tokenizer_call(text) IN
  IF inputs.raised THEN Raise
  ELSE LET outputs == model_forward(inputs.value.input_ids[1]) IN
  IF outputs.raised THEN Raise
  ELSE Return([num_layers |-> model.n_layer + 1,
               attentions |->
                 [l \in 1 .. Len(outputs.value.attentions) |->
                    squeeze0(outputs.value.attentions[l])]])

attention_body(text) ==
  LET inputs == tokenizer_call(text) IN
  IF inputs.raised THEN Raise
  ELSE LET outputs == model_forward(inputs.value.input_ids[1]) IN
  IF outputs.raised THEN Raise
  ELSE LET attentions == outputs.value.attentions
           attentions_data ==
             IF attentions # <<>>
             THEN [l \in 1 .. Len(attentions) |-> squeeze0(attentions[l])]
             ELSE <<>>
       IN Return([num_layers |-> Len(attentions_data),
                  attentions |-> attentions_data])

get_attention(text) ==
  IF tokenizer = None \/ model = None
  THEN NullPath(AttentionDefault)
  ELSE Guarded(attention_body(text), AttentionDefault)

(* ----------------------------- /embeddings ---------------------------- *)
EmbeddingsDefault(layer) == [embeddings |-> <<>>, layer |-> layer]

embeddings_body(text, layer) ==
  LET inputs == tokenizer_call(text) IN
  IF inputs.raised THEN Raise
  ELSE LET outputs == model_forward(inputs.value.input_ids[1]) IN
  IF outputs.raised THEN Raise
  ELSE LET hidden_states == outputs.value.hidden_states IN
  IF hidden_states = <<>> THEN Return(EmbeddingsDefault(layer))
  ELSE LET layer_idx == py_max(0, py_min(layer, Len(hidden_states) - 1))
           layer_embeddings == squeeze0(hidden_states[layer_idx + 1])
       IN Return([embeddings |-> layer_embeddings,
                  layer |-> layer_idx,
                  num_tokens |-> Len(layer_embeddings),
                  embedding_dim |-> IF layer_embeddings # <<>>
                                    THEN Len(layer_embeddings[1]) ELSE 0])

get_embeddings(text, layer) ==
  IF tokenizer = None \/ model = None
  THEN NullPath(EmbeddingsDefault(layer))
  ELSE Guarded(embeddings_body(text, layer), EmbeddingsDefault(layer))

(* --------------------------- /embeddings_all -------------------------- *)
EmbeddingsAllDefault ==
  [num_layers |-> 0, hidden_states |-> <<>>, embeddings3d |-> <<>>]

column_sum(X, c) == SumSeq([i \in 1 .. Len(X) |-> X[i][c]])

PcaTwoComponents(X) ==
  IF 2 > py_min(Len(X), Len(X[1])) THEN Raise
  ELSE Return([i \in 1 .. Len(X) |->
                 [c \in 1 .. 2 |-> Len(X) * X[i][c] - column_sum(X, c)]])

\* PCA(n_components=3).fit_transform(X): rejects n_components above
\* min(n_samples, n_features); otherwise one centred row per sample
pca_fit_transform(X) ==
  IF PcaComponents > py_min(Len(X), Len(X[1])) THEN Raise
  ELSE Return([i \in 1 .. Len(X) |->
                 [c \in 1 .. PcaComponents |->
                    Len(X) * X[i][c] - column_sum(X, c)]])

embeddings3d_of(hidden_states_data) ==
  IF hidden_states_data # <<>>
     /\ Len(hidden_states_data[Len(hidden_states_data)]) > 0
  THEN LET last_hidden == hidden_states_data[Len(hidden_states_data)] IN
       IF Len(last_hidden[1]) >= MinHiddenDim
       THEN IF pca_fit_transform(last_hidden).raised THEN <<>>
            ELSE pca_fit_transform(last_hidden).value
       ELSE <<>>
  ELSE <<>>

embeddings_all_body(text) ==
  LET inputs == tokenizer_call(text) IN
  IF inputs.raised THEN Raise
  ELSE LET outputs == model_forward(inputs.value.input_ids[1]) IN
  IF outputs.raised THEN Raise
  ELSE LET hidden_states == outputs.value.hidden_states
           hidden_states_data ==
             IF hidden_states # <<>>
             THEN [l \in 1 .. Len(hidden_states) |-> squeeze0(hidden_states[l])]
             ELSE <<>>
       IN Return([num_layers |-> Len(hidden_states_data),
                  hidden_states |-> hidden_states_data,
                  embeddings3d |-> embeddings3d_of(hidden_states_data)])

get_all_embeddings(text) ==
  IF tokenizer = None \/ model = None
  THEN NullPath(EmbeddingsAllDefault)
  ELSE Guarded(embeddings_all_body(text), EmbeddingsAllDefault)

(* --------------------- HookedTransformer (library) -------------------- *)
\* tl_model.to_tokens(text): prepends the beginning-of-sequence token,
\* which for GPT-2 is the end-of-text token; batch of one
to_tokens(text) ==
  IF \E i \in 1 .. Len(text) : text[i] = Surrogate
  THEN Raise
  ELSE Return(<<(<<EosId>> \o bpe(text))>>)

\* tl_model.to_str_tokens(text): the decoded string of every token
to_str_tokens(text) ==
  IF \E i \in 1 .. Len(text) : text[i] = Surrogate
  THEN Raise
  ELSE Return([i \in 1 .. (Len(bpe(text)) + 1) |->
                 decode((<<EosId>> \o bpe(text))[i])])

resid_val(key, pos, id, k) == (Len(key) + key[1] + 3 * id + 2 * pos + k) % 7

\* tl_model.run_with_cache(input_ids)[1]: key -> [batch, pos, d_model]
run_with_cache(input_ids) ==
  [key \in {<<layer, "hook_resid_post">> : layer \in 0 .. (tl_model.n_layers - 1)}
           \cup {<<0 - 1>>} |->
     [b \in 1 .. Len(input_ids) |->
        [pos \in 1 .. Len(input_ids[b]) |->
           [k \in 1 .. tl_model.d_model |->
              resid_val(key, pos, input_ids[b][pos], k)]]]]

\* f"blocks.{layer}.hook_resid_post" if layer < num_layers else "hook_embed"
resid_key(layer, num_layers) ==
  IF layer < num_layers THEN <<layer, "hook_resid_post">> ELSE <<0 - 1>>

\* torch.norm(resid).item(), rounded down
norm(resid) == Isqrt(SumSeq([k \in 1 .. Len(resid) |-> resid[k] * resid[k]]))

(* --------------------------- /residual_stream ------------------------- *)
ResidualDefault == [layer_values |-> <<>>, tokens |-> <<>>, num_layers |-> 0]

layer_values_of(input_ids, cache, num_layers) ==
  [token_idx \in 1 .. Len(input_ids[1]) |->
     [layer \in 1 .. (num_layers + 1) |->
        norm(cache[resid_key(layer - 1, num_layers)][1][token_idx])]]

RECURSIVE CleanPairsKeepAllValues(_, _, _)
CleanPairsKeepAllValues(tokens, layer_values, n) ==
  IF n > Len(tokens) \/ n > Len(layer_values) THEN <<>>
  ELSE <<[token |-> replace_marker(tokens[n]), vals |-> layer_values[n]]>>
         \o CleanPairsKeepAllValues(tokens, layer_values, n + 1)

\* for token, vals in zip(tokens, layer_values): keep unless end-of-text
RECURSIVE clean_pairs(_, _, _)
clean_pairs(tokens, layer_values, n) ==
  IF n > Len(tokens) \/ n > Len(layer_values) THEN <<>>
  ELSE IF tokens[n] # EndOfText
       THEN <<[token |-> replace_marker(tokens[n]), vals |-> layer_values[n]]>>
              \o clean_pairs(tokens, layer_values, n + 1)
       ELSE clean_pairs(tokens, layer_values, n + 1)

residual_body(text) ==
  LET tokens == to_str_tokens(text)
      input_ids == to_tokens(text)
  IN IF tokens.raised \/ input_ids.raised THEN Raise
     ELSE LET cache == run_with_cache(input_ids.value)
              num_layers == tl_model.n_layers
              layer_values == layer_values_of(input_ids.value, cache, num_layers)
              pairs == clean_pairs(tokens.value, layer_values, 1)
          IN Return([layer_values |-> [i \in 1 .. Len(pairs) |-> pairs[i].vals],
                     tokens |-> [i \in 1 .. Len(pairs) |-> pairs[i].token],
                     num_layers |-> num_layers + 1])

get_residual_stream(text) ==
  IF tl_model = None
  THEN NullPath(ResidualDefault)
  ELSE Guarded(residual_body(text), ResidualDefault)

(* --------------------------- startup and requests --------------------- *)
HiddenDims == {MinHiddenDim - 1, MinHiddenDim}

LoadedTokenizer == [loaded |-> TRUE, name |-> "gpt2"]

LoadedModels ==
  [loaded : {TRUE}, n_layer : {NumLayers}, n_embd : HiddenDims,
   n_head : {NumHeads}]

LoadedTlModels ==
  [loaded : {TRUE}, n_layers : {NumLayers}, d_model : {MinHiddenDim - 1}]

NoResponse == [endpoint |-> "none"]
NoPrev == [text |-> <<"none">>]

Respond(endpoint, req, r) ==
  [endpoint |-> endpoint, req |-> req, path |-> r.path,
   status |-> r.status, body |-> r.body]

\* the two import-time load blocks: either succeeds or leaves None
Init ==
  /\ \/ tokenizer = None /\ model = None
     \/ tokenizer = LoadedTokenizer /\ model \in LoadedModels
  /\ tl_model \in {None} \cup LoadedTlModels
  /\ resp = NoResponse
  /\ prev = NoPrev

TokenizeReqDropsHandle ==
  \E text \in Texts :
    /\ resp = NoResponse
    /\ resp' = Respond("tokenize", [text |-> text], tokenize_text(text))
    /\ tokenizer' = None
    /\ UNCHANGED <<model, tl_model, prev>>

TokenizeReq ==
  \E text \in Texts :
    /\ resp = NoResponse
    /\ resp' = Respond("tokenize", [text |-> text], tokenize_text(text))
    /\ UNCHANGED <<tokenizer, model, tl_model, prev>>

NextTokenReq ==
  \E text \in Texts, temperature \in TemperatureInputs, draw \in 0 .. (TopK - 1) :
    /\ resp = NoResponse
    /\ resp' = Respond("next_token", [text |-> text, temperature |-> temperature],
                       next_token_prediction(text, temperature, draw))
    /\ UNCHANGED <<tokenizer, model, tl_model, prev>>

ResidualStreamReq ==
  \E text \in Texts :
    /\ resp = NoResponse
    /\ resp' = Respond("residual_stream", [text |-> text],
                       get_residual_stream(text))
    /\ UNCHANGED <<tokenizer, model, tl_model, prev>>

AttentionReq ==
  \E text \in Texts :
    /\ resp = NoResponse
    /\ resp' = Respond("attention", [text |-> text], get_attention(text))
    /\ UNCHANGED <<tokenizer, model, tl_model, prev>>

EmbeddingsReq ==
  \E text \in Texts, layer \in LayerInputs :
    /\ resp = NoResponse
    /\ resp' = Respond("embeddings", [text |-> text, layer |-> layer],
                       get_embeddings(text, layer))
    /\ UNCHANGED <<tokenizer, model, tl_model, prev>>

EmbeddingsAllReq ==
  \E text \in Texts :
    /\ resp = NoResponse
    /\ resp' = Respond("embeddings_all", [text |-> text],
                       get_all_embeddings(text))
    /\ UNCHANGED <<tokenizer, model, tl_model, prev>>

\* the framework serialises the returned dict and discards it; nothing of
\* a request outlives its response in the service.  prev is a history
\* variable: one delivered /tokenize exchange a client has kept, to compare
\* the responses of later requests with
SendResponse ==
  \E keep \in BOOLEAN :
    /\ resp # NoResponse
    /\ resp' = NoResponse
    /\ prev' = IF keep /\ prev = NoPrev /\ resp.endpoint = "tokenize"
               THEN [text |-> resp.req.text, body |-> resp.body]
               ELSE prev
    /\ UNCHANGED <<tokenizer, model, tl_model>>

Next ==
  \/ TokenizeReq
  \/ NextTokenReq
  \/ ResidualStreamReq
  \/ AttentionReq
  \/ EmbeddingsReq
  \/ EmbeddingsAllReq
  \/ SendResponse

Spec == Init /\ [][Next]_vars

(* ------------------------------ properties ---------------------------- *)
Handled == resp # NoResponse

IsResp(endpoint) == Handled /\ resp.endpoint = endpoint

NoDuplicates(s) == \A i, j \in 1 .. Len(s) : s[i] = s[j] => i = j

FirstIndex(x, s) == CHOOSE i \in 1 .. Len(s) :
                      s[i] = x /\ \A j \in 1 .. (i - 1) : s[j] # x

\* the cleaned token strings of the ids a /tokenize response carries
CleanedOf(ids) == [i \in 1 .. Len(ids) |-> clean_token(Vocab[ids[i] + 1])]

\* the response each endpoint documents for a failed or missing model,
\* with the schema default where the request supplies a field
FixedDefault(endpoint) ==
  CASE endpoint = "tokenize" -> TokenizeDefault
    [] endpoint = "next_token" -> NextTokenDefault
    [] endpoint = "residual_stream" -> ResidualDefault
    [] endpoint = "attention" -> AttentionDefault
    [] endpoint = "embeddings" -> EmbeddingsDefault(DefaultLayer)
    [] endpoint = "embeddings_all" -> EmbeddingsAllDefault

\* the failure response of the handler for the request it was given
FailureResponse(r) ==
  IF r.endpoint = "embeddings" THEN EmbeddingsDefault(r.req.layer)
  ELSE FixedDefault(r.endpoint)

\* C1: every /embeddings response, whatever the requested layer, the load
\* state and the outcome of the handler, carries a 'layer' within
\* [0, num_hidden_layers]
C1_LayerAlwaysInRange ==
  IsResp("embeddings") => resp.body.layer \in 0 .. NumLayers

\* C2: when the handle is null or the handler body raises, every endpoint
\* returns its fixed empty default, the same for every request and
\* independent of every request field
C2_FailureGivesFixedDefault ==
  (Handled /\ resp.path \in {"null", "except"})
     => resp.body = FixedDefault(resp.endpoint)

\* C3: no handler ends in an unhandled failure: every request, under every
\* startup outcome, is answered by a returned response, and for the empty
\* text that response is a token sequence of at most one token or the
\* endpoint's empty default
C3_NoUnhandledFailure ==
  Handled =>
    /\ resp.status = "returned"
    /\ resp.req.text = <<>> =>
         \/ resp.body = FailureResponse(resp)
         \/ /\ resp.endpoint \in {"tokenize", "residual_stream"}
            /\ Len(resp.body.tokens) <= 1

C3_Witness ==
  /\ IsResp("attention")
  /\ resp.path = "except"
  /\ resp.req.text = <<>>
  /\ resp.status = "returned"

\* C4 as stated: in every /next_token response 'probability' is the 'prob'
\* of the entry of 'probs' that corresponds to the chosen token
C4_EveryResponseHasChosenEntry ==
  IsResp("next_token") =>
    \E i \in 1 .. Len(resp.body.probs) :
      /\ resp.body.probs[i].prob = resp.body.probability
      /\ resp.body.probs[i].token = resp.body.token

\* C4 amended: in every /next_token response of the success path,
\* 'probability' is the 'prob' of the entry of 'probs' at the sampled
\* position, whose stripped token string is 'token' and whose vocabulary id
\* is 'token_id'; the null-handle and exception responses carry an empty
\* 'probs' with probability 0.0
C4_SuccessProbabilityIsSampledEntry ==
  IsResp("next_token") =>
    IF resp.path = "ok"
    THEN LET i == resp.body.sampled_idx + 1 IN
         /\ i \in 1 .. Len(resp.body.probs)
         /\ Len(resp.body.probs) = TopK
         /\ resp.body.probs[i].prob = resp.body.probability
         /\ resp.body.probs[i].token = resp.body.token
         /\ resp.body.top_indices[i] = resp.body.token_id
         /\ strip(decode(resp.body.token_id)) = resp.body.token
    ELSE resp.body.probs = <<>> /\ resp.body.probability = 0

C4_Witness ==
  /\ IsResp("next_token")
  /\ resp.path = "ok"
  /\ resp.body.sampled_idx > 0
  /\ resp.body.probability < resp.body.probs[1].prob

\* C5: in every /attention response, on the success, null-handle and
\* exception paths alike, 'num_layers' is the length of 'attentions'
C5_NumLayersIsAttentionCount ==
  IsResp("attention") => resp.body.num_layers = Len(resp.body.attentions)

C5_Witness ==
  /\ IsResp("attention")
  /\ resp.path = "ok"
  /\ resp.body.num_layers = NumLayers
  /\ Len(resp.body.attentions[1]) = NumHeads

\* C6: a non-empty 'embeddings3d' of /embeddings_all has one row per token
\* of the last entry of 'hidden_states', each row of exactly 3 components;
\* when the hidden dimension is below 3 or the PCA step fails it is empty
\* while 'hidden_states' and 'num_layers' are returned in full
C6_PcaShape ==
  IsResp("embeddings_all") =>
    /\ resp.body.embeddings3d # <<>> =>
         /\ Len(resp.body.embeddings3d)
              = Len(resp.body.hidden_states[Len(resp.body.hidden_states)])
         /\ \A i \in 1 .. Len(resp.body.embeddings3d) :
              Len(resp.body.embeddings3d[i]) = 3
    /\ (resp.path = "ok"
        /\ (model.n_embd < 3 \/ Len(bpe(resp.req.text)) < 3)) =>
         /\ resp.body.embeddings3d = <<>>
         /\ resp.body.num_layers = model.n_layer + 1
         /\ Len(resp.body.hidden_states) = model.n_layer + 1
         /\ \A l \in 1 .. Len(resp.body.hidden_states) :
              /\ Len(resp.body.hidden_states[l]) = Len(bpe(resp.req.text))
              /\ \A t \in 1 .. Len(resp.body.hidden_states[l]) :
                   Len(resp.body.hidden_states[l][t]) = model.n_embd

C6_Witness ==
  /\ IsResp("embeddings_all")
  /\ resp.body.embeddings3d # <<>>
  /\ Len(resp.body.embeddings3d) = 3

\* C7: the 'tokens' of /tokenize are the cleaned token strings of the input
\* with every repeated string removed, in order of first occurrence: no
\* duplicates, and every cleaned token occurs exactly once
C7_TokensAreDedupedInFirstSeenOrder ==
  IsResp("tokenize") =>
    LET cleaned == CleanedOf(resp.body.input_ids)
        tokens == resp.body.tokens
    IN /\ NoDuplicates(tokens)
       /\ \A i \in 1 .. Len(cleaned) : InSeq(cleaned[i], tokens)
       /\ \A i \in 1 .. Len(tokens) : InSeq(tokens[i], cleaned)
       /\ \A i, j \in 1 .. Len(tokens) :
            i < j => FirstIndex(tokens[i], cleaned) < FirstIndex(tokens[j], cleaned)
       /\ resp.path = "ok" => resp.body.input_ids = bpe(resp.req.text)

C7_Witness ==
  /\ IsResp("tokenize")
  /\ resp.path = "ok"
  /\ Len(resp.body.tokens) = 2
  /\ Len(resp.body.input_ids) = 3
  /\ resp.body.tokens[2] = <<" ">>

KeptPositions(strs) == {p \in 1 .. Len(strs) : strs[p] # EndOfText}

NthKept(strs, i) ==
  CHOOSE p \in KeptPositions(strs) :
    Cardinality({q \in KeptPositions(strs) : q <= p}) = i

\* C9: in every /residual_stream response no token is the end-of-text
\* sentinel, 'tokens' and 'layer_values' have the same length with
\* layer_values[i] the norms of the input position tokens[i] came from,
\* and every row has 'num_layers' entries, one per block plus one for the
\* embedding output
C9_ResidualRowsAligned ==
  IsResp("residual_stream") =>
    /\ \A i \in 1 .. Len(resp.body.tokens) : resp.body.tokens[i] # EndOfText
    /\ Len(resp.body.tokens) = Len(resp.body.layer_values)
    /\ \A i \in 1 .. Len(resp.body.layer_values) :
         Len(resp.body.layer_values[i]) = resp.body.num_layers
    /\ resp.path = "ok" =>
         LET strs == to_str_tokens(resp.req.text).value
             ids == to_tokens(resp.req.text).value
         IN /\ resp.body.num_layers = tl_model.n_layers + 1
            /\ Len(resp.body.tokens) = Cardinality(KeptPositions(strs))
            /\ \A i \in 1 .. Len(resp.body.tokens) :
                 /\ resp.body.tokens[i] = strs[NthKept(strs, i)]
                 /\ resp.body.layer_values[i]
                      = layer_values_of(ids, run_with_cache(ids),
                                        tl_model.n_layers)[NthKept(strs, i)]

C9_Witness ==
  /\ IsResp("residual_stream")
  /\ resp.path = "ok"
  /\ resp.req.text = <<"a", EotText>>
  /\ Len(resp.body.tokens) = 1
  /\ Len(resp.body.layer_values[1]) = NumLayers + 1

\* C10: in every /tokenize response 'tokens' is at most as long as
\* 'input_ids', the lengths are equal exactly when the cleaned token strings
\* of the input are pairwise distinct, and 'input_ids' is not deduplicated
C10_TokensNoLongerThanIds ==
  IsResp("tokenize") =>
    /\ Len(resp.body.tokens) <= Len(resp.body.input_ids)
    /\ resp.path = "ok" =>
         /\ resp.body.input_ids = bpe(resp.req.text)
         /\ (Len(resp.body.tokens) = Len(resp.body.input_ids))
              <=> NoDuplicates(CleanedOf(bpe(resp.req.text)))
    /\ resp.path # "ok" => resp.body.input_ids = <<>>

C10_Witness ==
  /\ IsResp("tokenize")
  /\ resp.path = "ok"
  /\ Len(resp.body.tokens) < Len(resp.body.input_ids)

====
